---- MODULE Spec2Model ----
(***************************************************************************)
(* ProjectProvider (src/contexts/ProjectContext.tsx): the store of the     *)
(* single academic project, its write-back to localStorage, the create,   *)
(* import, export and reset handlers and the humanizing cooldown.          *)
(***************************************************************************)
EXTENDS Integers, Sequences, FiniteSets, TLC

(***************************************************************************)
(* JavaScript values.  A value is <<type, payload>>.  A top-level object   *)
(* carries its own properties (a function from keys to values); arrays and *)
(* nested objects are carried whole, named by their content, because no    *)
(* code of the store looks inside them.                                    *)
(***************************************************************************)
JsUndefined == <<"undefined", "">>
JsNull == <<"null", "">>
JsString(s) == <<"string", s>>
JsArray(a) == <<"arrayval", a>>
JsRecord(r) == <<"objectval", r>>
JsObject(props) == <<"object", props>>

NoProps == [k \in {} |-> JsUndefined]

\* if (v), !v
Truthy(v) == v[1] \notin {"undefined", "null"} /\ v # JsString("")

IsObject(v) == v[1] = "object"

\* v.k : undefined when the property is missing or v is a primitive, array or
\* nested object; reading a property of null or undefined throws a TypeError
\* (see ReadThrows).
GetProp(v, k) ==
    IF IsObject(v) /\ k \in DOMAIN v[2] THEN v[2][k] ELSE JsUndefined

ReadThrows(v) == v[1] \in {"undefined", "null"}

\* v.k = x on an object
SetProp(v, k, x) ==
    JsObject([f \in (DOMAIN v[2]) \cup {k} |-> IF f = k THEN x ELSE v[2][f]])

(***************************************************************************)
(* JSON text: a sequence of tokens.  JSON.stringify writes it, JSON.parse  *)
(* reads it back or throws a SyntaxError.                                  *)
(***************************************************************************)
Tok(t, s) == [tok |-> t, text |-> s]
LBrace == Tok("{", "")
RBrace == Tok("}", "")
Colon == Tok(":", "")
Comma == Tok(",", "")
Ws == Tok("ws", "")
Junk == Tok("junk", "")

\* The order in which the properties of a project are written.
FieldOrder ==
    << "title", "authorInfo", "outline", "chapters", "bibliography", "appendices",
       "statementPageData", "approvalData", "preface", "abstract" >>

IsLiteral(t) == t.tok \in {"nulllit", "strlit", "arrlit", "objlit"}

\* JSON.stringify of a value that is not a top-level object
LiteralOf(v) ==
    CASE v[1] = "null" -> Tok("nulllit", "")
      [] v[1] = "string" -> Tok("strlit", v[2])
      [] v[1] = "arrayval" -> Tok("arrlit", v[2])
      [] v[1] = "objectval" -> Tok("objlit", v[2])

\* JSON.parse of a literal
ValueOfLiteral(t) ==
    CASE t.tok = "nulllit" -> JsNull
      [] t.tok = "strlit" -> JsString(t.text)
      [] t.tok = "arrlit" -> JsArray(t.text)
      [] t.tok = "objlit" -> JsRecord(t.text)

RECURSIVE StringifyMembers(_, _, _, _)
\* The members of an object; a property whose value is undefined is left out.
StringifyMembers(props, keys, pretty, first) ==
    IF keys = <<>> THEN <<>>
    ELSE LET k == Head(keys) IN
         IF k \notin DOMAIN props \/ props[k] = JsUndefined
         THEN StringifyMembers(props, Tail(keys), pretty, first)
         ELSE (IF first THEN <<>> ELSE <<Comma>>)
              \o (IF pretty THEN <<Ws>> ELSE <<>>)
              \o <<Tok("strlit", k), Colon>>
              \o (IF pretty THEN <<Ws>> ELSE <<>>)
              \o <<LiteralOf(props[k])>>
              \o StringifyMembers(props, Tail(keys), pretty, FALSE)

\* JSON.stringify(v) and, with pretty, JSON.stringify(v, null, 2)
JsonStringify(v, pretty) ==
    IF IsObject(v)
    THEN LET m == StringifyMembers(v[2], FieldOrder, pretty, TRUE) IN
         <<LBrace>> \o m \o (IF pretty /\ m # <<>> THEN <<Ws>> ELSE <<>>) \o <<RBrace>>
    ELSE <<LiteralOf(v)>>

RECURSIVE ParseMembers(_, _, _)
\* From token i on: key : literal (, key : literal)*  up to the closing brace,
\* the last token.  A repeated key keeps its last value.
ParseMembers(t, i, props) ==
    IF i + 3 <= Len(t) /\ t[i].tok = "strlit" /\ t[i + 1].tok = ":" /\ IsLiteral(t[i + 2])
    THEN IF i + 3 = Len(t)
         THEN [ok |-> TRUE,
               props |-> [f \in (DOMAIN props) \cup {t[i].text} |->
                            IF f = t[i].text THEN ValueOfLiteral(t[i + 2]) ELSE props[f]]]
         ELSE IF t[i + 3].tok = ","
              THEN ParseMembers(t, i + 4,
                                [f \in (DOMAIN props) \cup {t[i].text} |->
                                   IF f = t[i].text THEN ValueOfLiteral(t[i + 2]) ELSE props[f]])
              ELSE [ok |-> FALSE, props |-> NoProps]
    ELSE [ok |-> FALSE, props |-> NoProps]

IsNotWs(t) == t.tok # "ws"

\* The value of the tokens t, white space removed.
ParseTokens(t) ==
    IF Len(t) = 1 /\ IsLiteral(t[1])
    THEN [ok |-> TRUE, value |-> ValueOfLiteral(t[1])]
    ELSE IF Len(t) = 2 /\ t[1] = LBrace /\ t[2] = RBrace
    THEN [ok |-> TRUE, value |-> JsObject(NoProps)]
    ELSE IF Len(t) > 2 /\ t[1] = LBrace /\ t[Len(t)] = RBrace
    THEN CHOOSE r \in { [ok |-> m.ok, value |-> IF m.ok THEN JsObject(m.props) ELSE JsUndefined] :
                        m \in {ParseMembers(t, 2, NoProps)} } : TRUE
    ELSE [ok |-> FALSE, value |-> JsUndefined]

\* JSON.parse(text): ok with the value, or not ok (a SyntaxError is thrown).
JsonParse(text) ==
    CHOOSE r \in { ParseTokens(t) : t \in {SelectSeq(text, IsNotWs)} } : TRUE

(***************************************************************************)
(* Project documents.                                                      *)
(***************************************************************************)
RequiredFields == {"title", "authorInfo", "outline", "chapters"}
OptionalFields ==
    {"bibliography", "appendices", "statementPageData", "approvalData", "preface", "abstract"}

PrefacePlaceholder == JsString("<p>Kata Pengantar belum dibuat.</p>")
AbstractPlaceholder == JsString("<p>Abstrak belum dibuat.</p>")

\* A project with every field set to a value of its own.
FullProject ==
    JsObject([title |-> JsString("Analisis Data"),
              authorInfo |-> JsRecord("penulis"),
              outline |-> JsArray("kerangka"),
              chapters |-> JsArray("bab"),
              bibliography |-> JsArray("pustaka"),
              appendices |-> JsArray("lampiran"),
              statementPageData |-> JsRecord("pernyataan"),
              approvalData |-> JsRecord("pengesahan"),
              preface |-> JsString("<p>Pengantar</p>"),
              abstract |-> JsString("<p>Ringkasan</p>")])

\* The object with only the properties `keys` of `v`.
Only(v, keys) == JsObject([k \in keys |-> v[2][k]])

RECURSIVE With(_, _)
\* `v` with the properties of `changes` (a sequence of <<key, value>>) set.
With(v, changes) ==
    IF changes = <<>> THEN v
    ELSE With(SetProp(v, Head(changes)[1], Head(changes)[2]), Tail(changes))

\* A project saved by a version that knew only the title and the author.
LegacyProject == Only(With(FullProject, << <<"title", JsString("Skripsi Lama")>> >>),
                      {"title", "authorInfo"})
\* A project with the four required fields and no optional field.
CoreProject == Only(With(FullProject, << <<"title", JsString("Kerangka Saja")>> >>),
                    RequiredFields)
\* A project with every field, the optional ones empty: empty lists, null, "".
BlankProject ==
    With(FullProject,
         << <<"title", JsString("Proyek Kosong")>>,
            <<"bibliography", JsArray("")>>, <<"appendices", JsArray("")>>,
            <<"statementPageData", JsNull>>, <<"approvalData", JsNull>>,
            <<"preface", JsString("")>>, <<"abstract", JsString("")>> >>)
\* A project whose title is the empty string.
UntitledProject == With(FullProject, << <<"title", JsString("")>> >>)
\* An object that is no project: it has no title.
NoTitleObject == Only(FullProject, (RequiredFields \cup OptionalFields) \ {"title"})
\* A complete project whose title is a list, not a string.
ListTitleProject == With(FullProject, << <<"title", JsArray("judul")>> >>)
\* A project without chapters.
NoChaptersProject ==
    Only(With(FullProject, << <<"title", JsString("Tanpa Bab")>> >>),
         (RequiredFields \cup OptionalFields) \ {"chapters"})

\* initialProjectData of src/data/initialProject: the built-in default project.
initialProjectData ==
    JsObject([title |-> JsString("Proyek Awal"),
              authorInfo |-> JsRecord("penulis awal"),
              outline |-> JsArray("kerangka awal"),
              chapters |-> JsArray("bab awal"),
              bibliography |-> JsArray(""),
              appendices |-> JsArray(""),
              statementPageData |-> JsNull,
              approvalData |-> JsNull,
              preface |-> PrefacePlaceholder,
              abstract |-> AbstractPlaceholder])

\* The ProjectData values a caller hands to onProjectUpdate and loadProject:
\* the required fields are there, the optional ones may be missing.
ProjectDataValues == {FullProject, BlankProject, CoreProject, UntitledProject}

\* What initializeNewProject resolves with.
GeneratedProjects ==
    {With(FullProject, << <<"title", JsString("Judul Baru")>>,
                          <<"chapters", JsArray("bab baru")>> >>)}

Garbage == <<LBrace, Junk>>

\* What the slot academicProject may hold when the page is opened: nothing
\* (NoProps below), or one of these strings.
SavedStrings ==
    { <<>>, Garbage, JsonStringify(JsNull, FALSE),
      JsonStringify(LegacyProject, FALSE), JsonStringify(NoTitleObject, FALSE),
      JsonStringify(FullProject, FALSE), JsonStringify(ListTitleProject, FALSE) }

\* The files a user may pick for import, by name.
ImportFiles ==
    [ rusak |-> Garbage,
      null |-> JsonStringify(JsNull, TRUE),
      lama |-> JsonStringify(LegacyProject, TRUE),
      tanpaBab |-> JsonStringify(NoChaptersProject, TRUE),
      inti |-> JsonStringify(CoreProject, TRUE),
      kosong |-> JsonStringify(BlankProject, TRUE),
      lengkap |-> JsonStringify(FullProject, TRUE) ]

(***************************************************************************)
(* localStorage: a function from the keys it holds to their strings.       *)
(***************************************************************************)
StorageKey == "academicProject"
NoItems == [k \in {} |-> <<>>]
HasItem(store, key) == key \in DOMAIN store
SetItem(store, key, text) ==
    [k \in (DOMAIN store) \cup {key} |-> IF k = key THEN text ELSE store[k]]
RemoveItem(store, key) == [k \in (DOMAIN store) \ {key} |-> store[k]]

(***************************************************************************)
(* getInitialData                                                          *)
(***************************************************************************)
\* if (!obj[k]) obj[k] = defaults[k], for every key k of defaults.  The
\* statements set different properties, so their order does not matter.
ApplyDefaults(obj, defaults) ==
    JsObject([k \in (DOMAIN obj[2]) \cup (DOMAIN defaults) |->
                IF k \in DOMAIN defaults /\ ~Truthy(GetProp(obj, k))
                THEN defaults[k] ELSE obj[2][k]])

\* Lines 14-19: the compatibility checks on the loaded project.
LoadedDefaults ==
    [bibliography |-> JsArray(""),
     appendices |-> JsArray(""),
     statementPageData |-> JsNull,
     approvalData |-> JsNull,
     preface |-> PrefacePlaceholder,
     abstract |-> AbstractPlaceholder]

BackfillLoaded(parsedProject) == ApplyDefaults(parsedProject, LoadedDefaults)

\* Line 12
LoadAccepts(parsedProject) ==
    /\ Truthy(GetProp(parsedProject, "title"))
    /\ Truthy(GetProp(parsedProject, "authorInfo"))

\* Lines 12-23, with parsedProject the result of JSON.parse (line 11).
LoadParsed(parsed) ==
    IF ~parsed.ok \/ ReadThrows(parsed.value)
    THEN [threw |-> TRUE, value |-> JsUndefined]
    ELSE IF LoadAccepts(parsed.value)
         THEN [threw |-> FALSE, value |-> BackfillLoaded(parsed.value)]
         ELSE [threw |-> FALSE, value |-> initialProjectData]

\* The try block (lines 9-23): what it returns, or that it threw.  (A
\* one-element set binds a value, so that it is computed once.)
GetInitialDataTry(store) ==
    IF HasItem(store, StorageKey) /\ store[StorageKey] # <<>>
    THEN CHOOSE r \in { LoadParsed(parsed) : parsed \in {JsonParse(store[StorageKey])} } : TRUE
    ELSE [threw |-> FALSE, value |-> initialProjectData]

\* A catch that gives up: no project instead of the default.
GetInitialDataCatchAbsent(r) == IF r.threw THEN JsNull ELSE r.value

\* Lines 24-27: the catch.
GetInitialDataCatch(r) == IF r.threw THEN initialProjectData ELSE r.value

GetInitialData(store) ==
    CHOOSE v \in { GetInitialDataCatch(r) : r \in {GetInitialDataTry(store)} } : TRUE

(***************************************************************************)
(* importProject.performImport                                             *)
(***************************************************************************)
ImportedAlert == "Proyek berhasil diimpor!"
ImportFailedAlert == "Gagal mengimpor proyek. Pastikan file JSON valid dan berasal dari aplikasi ini."
CreateFailedAlert == "Gagal membuat proyek baru."
NothingToExportAlert == "Tidak ada proyek aktif untuk diekspor."
ExportFailedAlert == "Gagal mengekspor proyek."

\* The check of line 104 without chapters.
ImportAcceptsNoChapters(importedData) ==
    /\ Truthy(GetProp(importedData, "title"))
    /\ Truthy(GetProp(importedData, "outline"))
    /\ Truthy(GetProp(importedData, "authorInfo"))

\* Line 104
ImportAccepts(importedData) ==
    /\ Truthy(GetProp(importedData, "title"))
    /\ Truthy(GetProp(importedData, "outline"))
    /\ Truthy(GetProp(importedData, "chapters"))
    /\ Truthy(GetProp(importedData, "authorInfo"))

\* The compatibility checks without the one for preface.
ImportedDefaultsNoPreface ==
    [bibliography |-> JsArray(""),
     appendices |-> JsArray(""),
     statementPageData |-> JsNull,
     approvalData |-> JsNull,
     abstract |-> AbstractPlaceholder]

\* Lines 106-111: the compatibility checks on the imported project.
ImportedDefaults ==
    [bibliography |-> JsArray(""),
     appendices |-> JsArray(""),
     statementPageData |-> JsNull,
     approvalData |-> JsNull,
     preface |-> PrefacePlaceholder,
     abstract |-> AbstractPlaceholder]

BackfillImported(importedData) == ApplyDefaults(importedData, ImportedDefaults)

\* Lines 104-117, with importedData the result of JSON.parse (line 103): the
\* error thrown ("" for none), whether setProjectData was reached and with
\* what, and the alert shown.
ImportParsed(parsed) ==
    IF ~parsed.ok
    THEN [threw |-> "SyntaxError", set |-> FALSE, data |-> JsNull, alert |-> ""]
    ELSE IF ReadThrows(parsed.value)
    THEN [threw |-> "TypeError", set |-> FALSE, data |-> JsNull, alert |-> ""]
    ELSE IF ImportAccepts(parsed.value)
    THEN [threw |-> "", set |-> TRUE, data |-> BackfillImported(parsed.value),
          alert |-> ImportedAlert]
    ELSE [threw |-> "Error", set |-> FALSE, data |-> JsNull, alert |-> ""]

\* The try block (lines 103-117).
PerformImportTry(fileContent) ==
    CHOOSE r \in { ImportParsed(parsed) : parsed \in {JsonParse(fileContent)} } : TRUE

\* A catch that also drops the active project.
PerformImportCatchClears(r) ==
    IF r.threw # ""
    THEN [set |-> TRUE, data |-> JsNull, alert |-> ImportFailedAlert, uncaught |-> FALSE]
    ELSE [set |-> r.set, data |-> r.data, alert |-> r.alert, uncaught |-> FALSE]

\* Lines 118-121: the catch.  Nothing was set before the throw; the failure is
\* alerted and nothing is thrown on.
PerformImportCatch(r) ==
    IF r.threw # ""
    THEN [set |-> FALSE, data |-> JsNull, alert |-> ImportFailedAlert, uncaught |-> FALSE]
    ELSE [set |-> r.set, data |-> r.data, alert |-> r.alert, uncaught |-> FALSE]

\* performImport (lines 101-122)
PerformImport(fileContent) ==
    CHOOSE out \in { PerformImportCatch(r) : r \in {PerformImportTry(fileContent)} } : TRUE

(***************************************************************************)
(* The provider's state.                                                   *)
(***************************************************************************)
\* How many calls of createProject may be awaiting initializeNewProject.
MaxCreates == 2
\* How many cooldown timers may be pending.
MaxTimers == 2
\* The delay of the cooldown timer, in milliseconds.
CooldownMs == 15000
\* The clock advances by half the delay.
TickMs == CooldownMs \div 2

VARIABLES
    projectData,           \* useState: the active project, or null
    isCreatingProject,     \* useState
    isHumanizingCooldown,  \* useState
    localStorage,          \* the browser's storage
    effectPending,         \* the useEffect on [projectData] is due to run
    creating,              \* calls of createProject awaiting initializeNewProject
    timers,                \* pending setTimeout callbacks, oldest first: the time left
    solo,                  \* the last call of startHumanizingCooldown made with no
                           \* timer pending: the time since it (-1: no such call)
                           \* and whether the function was called again after it
    lastCall,              \* what ran last (a handler, a callback, the effect, the
                           \* clock) and its outcome
    lastFile,              \* the name of the file the last call of performImport read
    lastAlert,             \* the alert the last call showed, "" for none
    lastDownload,          \* the file the last call offered: <<name, text>>, <<>> for none
    uncaught               \* the last call ended in an uncaught exception

vars ==
    << projectData, isCreatingProject, isHumanizingCooldown, localStorage, effectPending,
       creating, timers, solo, lastCall, lastFile, lastAlert, lastDownload, uncaught >>

docVars == << projectData, localStorage, effectPending >>
cooldownVars == << isHumanizingCooldown, timers, solo >>
NoSolo == [age |-> -1, more |-> FALSE]
\* A call is remembered until the delay has passed since it and another call
\* was made.
Remembered(s) == IF s.more /\ s.age >= CooldownMs THEN NoSolo ELSE s
createVars == << isCreatingProject, creating >>

\* The effect with no dependency on projectData: it runs after the first
\* render only.
EffectOnMountOnly(v) == FALSE

\* setProjectData(v): React runs the effect after the render the change causes,
\* before it runs the next handler or callback; setting the state it already
\* holds causes no render.
EffectAfterSet(v) == v # projectData

\* No effect is waiting to run: a handler or callback may run.
Idle == ~effectPending

\* What the call reports.
Report(call, file, alert, threw) ==
    /\ lastCall' = call
    /\ lastFile' = file
    /\ lastAlert' = alert
    /\ lastDownload' = <<>>
    /\ uncaught' = threw

\* Lines 51-53: the provider mounts with the state getInitialData reads from
\* the storage; the effect runs after the first render.
Mounted(store) ==
    /\ projectData = GetInitialData(store)
    /\ isCreatingProject = FALSE
    /\ isHumanizingCooldown = FALSE
    /\ localStorage = store
    /\ effectPending = TRUE
    /\ creating = 0
    /\ timers = <<>>
    /\ solo = NoSolo
    /\ lastCall = "mount"
    /\ lastFile = ""
    /\ lastAlert = ""
    /\ lastDownload = <<>>
    /\ uncaught = FALSE

Init == \E store \in {NoItems} \cup {SetItem(NoItems, StorageKey, s) : s \in SavedStrings} :
            Mounted(store)

\* Lines 55-61: the effect.
PersistEffect ==
    /\ effectPending
    /\ localStorage' = IF Truthy(projectData)
                       THEN SetItem(localStorage, StorageKey, JsonStringify(projectData, FALSE))
                       ELSE RemoveItem(localStorage, StorageKey)
    /\ effectPending' = FALSE
    /\ Report("effect", "", "", FALSE)
    /\ UNCHANGED << projectData, createVars, cooldownVars >>

\* Lines 63-65
onProjectUpdate(newProjectData) ==
    /\ Idle
    /\ projectData' = newProjectData
    /\ effectPending' = EffectAfterSet(newProjectData)
    /\ Report("onProjectUpdate", "", "", FALSE)
    /\ UNCHANGED << localStorage, createVars, cooldownVars >>

\* Lines 67-69
loadProject(data) ==
    /\ Idle
    /\ projectData' = data
    /\ effectPending' = EffectAfterSet(data)
    /\ Report("loadProject", "", "", FALSE)
    /\ UNCHANGED << localStorage, createVars, cooldownVars >>

\* startNewProject clearing the storage before it asks.
startNewProjectClearFirst(confirmed) ==
    /\ ~effectPending
    /\ localStorage' = RemoveItem(localStorage, StorageKey)
    /\ IF confirmed
       THEN /\ projectData' = JsNull
            /\ effectPending' = (JsNull # projectData)
            /\ lastCall' = "startNewProject"
       ELSE /\ UNCHANGED << projectData, effectPending >>
            /\ lastCall' = "startNewProject:declined"
    /\ lastFile' = ""
    /\ lastAlert' = ""
    /\ lastDownload' = <<>>
    /\ uncaught' = FALSE
    /\ UNCHANGED << isCreatingProject, creating, isHumanizingCooldown, timers, solo >>

\* startNewProject leaving the storage to the effect.
startNewProjectNoRemove(confirmed) ==
    /\ ~effectPending
    /\ IF confirmed
       THEN /\ projectData' = JsNull
            /\ effectPending' = (JsNull # projectData)
            /\ lastCall' = "startNewProject"
       ELSE /\ UNCHANGED << projectData, effectPending >>
            /\ lastCall' = "startNewProject:declined"
    /\ lastFile' = ""
    /\ lastAlert' = ""
    /\ lastDownload' = <<>>
    /\ uncaught' = FALSE
    /\ UNCHANGED << localStorage, isCreatingProject, creating, isHumanizingCooldown, timers, solo >>

\* Lines 71-76; `confirmed` is the answer to window.confirm.
startNewProject(confirmed) ==
    /\ Idle
    /\ IF confirmed
       THEN /\ localStorage' = RemoveItem(localStorage, StorageKey)
            /\ projectData' = JsNull
            /\ effectPending' = EffectAfterSet(JsNull)
            /\ Report("startNewProject", "", "", FALSE)
       ELSE /\ UNCHANGED docVars
            /\ Report("startNewProject:declined", "", "", FALSE)
    /\ UNCHANGED << createVars, cooldownVars >>

\* Lines 78-82: createProject up to its await.
createProject ==
    /\ Idle
    /\ creating < MaxCreates
    /\ isCreatingProject' = TRUE
    /\ creating' = creating + 1
    /\ Report("createProject", "", "", FALSE)
    /\ UNCHANGED << docVars, cooldownVars >>

\* createProject keeping a project that became active while it waited.
createProjectResolvedKeeps(newProject) ==
    /\ ~effectPending
    /\ creating > 0
    /\ projectData' = IF Truthy(projectData) THEN projectData ELSE newProject
    /\ effectPending' = ~Truthy(projectData)
    /\ isCreatingProject' = FALSE
    /\ creating' = creating - 1
    /\ lastCall' = "createProject:resolved"
    /\ lastFile' = ""
    /\ lastAlert' = ""
    /\ lastDownload' = <<>>
    /\ uncaught' = FALSE
    /\ UNCHANGED << localStorage, isHumanizingCooldown, timers, solo >>

\* Lines 83, 87-89: initializeNewProject resolved with newProject.
createProjectResolved(newProject) ==
    /\ Idle
    /\ creating > 0
    /\ projectData' = newProject
    /\ effectPending' = EffectAfterSet(newProject)
    /\ isCreatingProject' = FALSE
    /\ creating' = creating - 1
    /\ Report("createProject:resolved", "", "", FALSE)
    /\ UNCHANGED << localStorage, cooldownVars >>

\* createProject clearing the flag after the try block only, not in a finally.
createProjectRejectedNoFinally ==
    /\ ~effectPending
    /\ creating > 0
    /\ creating' = creating - 1
    /\ lastCall' = "createProject:rejected"
    /\ lastFile' = ""
    /\ lastAlert' = CreateFailedAlert
    /\ lastDownload' = <<>>
    /\ uncaught' = FALSE
    /\ UNCHANGED << projectData, localStorage, effectPending, isCreatingProject,
                    isHumanizingCooldown, timers, solo >>

\* createProject dropping the project when the generation fails.
createProjectRejectedClears ==
    /\ ~effectPending
    /\ creating > 0
    /\ projectData' = JsNull
    /\ effectPending' = (JsNull # projectData)
    /\ isCreatingProject' = FALSE
    /\ creating' = creating - 1
    /\ lastCall' = "createProject:rejected"
    /\ lastFile' = ""
    /\ lastAlert' = CreateFailedAlert
    /\ lastDownload' = <<>>
    /\ uncaught' = FALSE
    /\ UNCHANGED << localStorage, isHumanizingCooldown, timers, solo >>

\* Lines 84-89: initializeNewProject rejected with an Error.
createProjectRejected ==
    /\ Idle
    /\ creating > 0
    /\ isCreatingProject' = FALSE
    /\ creating' = creating - 1
    /\ Report("createProject:rejected", "", CreateFailedAlert, FALSE)
    /\ UNCHANGED << docVars, cooldownVars >>

\* A delay with a digit dropped.
TimerDelayShort == CooldownMs \div 10

\* Line 97: the delay given to setTimeout.
TimerDelay == CooldownMs

\* Lines 92-98: the flag is set and a timer is started.
startHumanizingCooldown ==
    /\ Idle
    /\ Len(timers) < MaxTimers
    /\ isHumanizingCooldown' = TRUE
    /\ timers' = Append(timers, TimerDelay)
    /\ solo' = IF timers = <<>> THEN [age |-> 0, more |-> FALSE]
               ELSE Remembered([solo EXCEPT !.more = solo.age >= 0])
    /\ Report("startHumanizingCooldown", "", "", FALSE)
    /\ UNCHANGED << docVars, createVars >>

\* The callback clearing the creating flag too.
cooldownTimeoutClearsBoth ==
    /\ ~effectPending
    /\ timers # <<>>
    /\ Head(timers) = 0
    /\ isHumanizingCooldown' = FALSE
    /\ isCreatingProject' = FALSE
    /\ timers' = Tail(timers)
    /\ lastCall' = "cooldownTimeout"
    /\ lastFile' = ""
    /\ lastAlert' = ""
    /\ lastDownload' = <<>>
    /\ uncaught' = FALSE
    /\ UNCHANGED << projectData, localStorage, effectPending, creating, solo >>

\* Lines 95-97: the callback of the timer that is due.
cooldownTimeout ==
    /\ Idle
    /\ timers # <<>>
    /\ Head(timers) = 0
    /\ isHumanizingCooldown' = FALSE
    /\ timers' = Tail(timers)
    /\ Report("cooldownTimeout", "", "", FALSE)
    /\ UNCHANGED << docVars, createVars, solo >>

\* Time passes, by TickMs, while timers are pending and none is due.
Tick ==
    /\ Idle
    /\ timers # <<>>
    /\ Head(timers) > 0
    /\ timers' = [i \in DOMAIN timers |-> IF timers[i] > TickMs THEN timers[i] - TickMs ELSE 0]
    /\ solo' = IF solo.age < 0 THEN solo ELSE Remembered([solo EXCEPT !.age = @ + TickMs])
    /\ Report("tick", "", "", FALSE)
    /\ UNCHANGED << docVars, createVars, isHumanizingCooldown >>

\* Lines 139: the text exportProject offers for download.
ExportText(data) == JsonStringify(data, TRUE)

(***************************************************************************)
(* exportProject: the file name.  A title is a string; its characters are  *)
(* looked up in TitleChars, and the name is a sequence of pieces.          *)
(***************************************************************************)
LowerLetters ==
    { "a", "b", "c", "d", "e", "f", "g", "h", "i", "j", "k", "l", "m",
      "n", "o", "p", "q", "r", "s", "t", "u", "v", "w", "x", "y", "z" }
Digits == { "0", "1", "2", "3", "4", "5", "6", "7", "8", "9" }
UpperToLower ==
    [ A |-> "a", B |-> "b", C |-> "c", D |-> "d", E |-> "e", F |-> "f", G |-> "g",
      H |-> "h", I |-> "i", J |-> "j", K |-> "k", L |-> "l", M |-> "m", N |-> "n",
      O |-> "o", P |-> "p", Q |-> "q", R |-> "r", S |-> "s", T |-> "t", U |-> "u",
      V |-> "v", W |-> "w", X |-> "x", Y |-> "y", Z |-> "z" ]

\* title.toLowerCase()
ToLowerCase(cs) ==
    [i \in DOMAIN cs |-> IF cs[i] \in DOMAIN UpperToLower THEN UpperToLower[cs[i]] ELSE cs[i]]

\* The class [^a-z0-9]
NotLowerAlnum(c) == c \notin LowerLetters \cup Digits

RECURSIVE ReplaceFrom(_, _)
\* .replace(/[^a-z0-9]+/g, '-') from character i on: the longest run of the
\* class starting at i becomes one hyphen.
ReplaceFrom(cs, i) ==
    IF i > Len(cs) THEN <<>>
    ELSE IF NotLowerAlnum(cs[i])
         THEN IF i > 1 /\ NotLowerAlnum(cs[i - 1])
              THEN ReplaceFrom(cs, i + 1)
              ELSE <<"-">> \o ReplaceFrom(cs, i + 1)
         ELSE <<cs[i]>> \o ReplaceFrom(cs, i + 1)

ReplaceRuns(cs) == ReplaceFrom(cs, 1)

\* .replace(/^-/, ''): the hyphen at the end stays.
TrimHyphensAtStart(cs) == IF cs # <<>> /\ cs[1] = "-" THEN Tail(cs) ELSE cs

\* .replace(/(^-|-$)/g, ''): a hyphen at the start goes, and so does one at
\* the end of what follows it.
TrimHyphens(cs) ==
    CHOOSE r \in { IF a # <<>> /\ a[Len(a)] = "-" THEN SubSeq(a, 1, Len(a) - 1) ELSE a :
                    a \in { IF cs # <<>> /\ cs[1] = "-" THEN Tail(cs) ELSE cs } } : TRUE

\* Line 143
SanitizedTitle(title) == TrimHyphens(ReplaceRuns(ToLowerCase(title)))

Fallback == << "t", "a", "n", "p", "a", "-", "j", "u", "d", "u", "l" >>

\* Line 144: `proyek-akademik-${sanitizedTitle || 'tanpa-judul'}.json`
FileName(sanitizedTitle) ==
    <<"proyek-akademik-">> \o (IF sanitizedTitle # <<>> THEN sanitizedTitle ELSE Fallback)
        \o <<".json">>

RECURSIVE Str(_)
\* The string of the characters cs.
Str(cs) == IF cs = <<>> THEN "" ELSE cs[1] \o Str(Tail(cs))

\* The characters of the titles of the projects above.
ModelTitles ==
    { <<>>,
      << "A", "n", "a", "l", "i", "s", "i", "s", " ", "D", "a", "t", "a" >>,
      << "S", "k", "r", "i", "p", "s", "i", " ", "L", "a", "m", "a" >>,
      << "K", "e", "r", "a", "n", "g", "k", "a", " ", "S", "a", "j", "a" >>,
      << "P", "r", "o", "y", "e", "k", " ", "K", "o", "s", "o", "n", "g" >>,
      << "T", "a", "n", "p", "a", " ", "B", "a", "b" >>,
      << "P", "r", "o", "y", "e", "k", " ", "A", "w", "a", "l" >>,
      << "J", "u", "d", "u", "l", " ", "B", "a", "r", "u" >> }

\* Titles over a small alphabet: a lower-case letter, an upper-case letter, a
\* digit, a hyphen and another character; at most MaxTitleLen characters.
MaxTitleLen == 4
TitleAlphabet == << "a", "B", "1", "-", "!" >>
ExampleTitles ==
    { << "A", "n", "a", "l", "i", "s", "i", "s", " ", "D", "a", "t", "a", "!", "!" >>,
      << "?", "?", "?" >> }

RECURSIVE TitlesFrom(_, _, _)
\* The table string |-> characters of the titles that extend `prefix` by one
\* of the characters `next` and then by at most n - 1 characters.
TitlesFrom(prefix, n, next) ==
    IF n = 0 \/ next = <<>> THEN << >>
    ELSE ((Str(Append(prefix, Head(next))) :> Append(prefix, Head(next)))
          @@ TitlesFrom(Append(prefix, Head(next)), n - 1, TitleAlphabet))
         @@ TitlesFrom(prefix, n, Tail(next))

\* The characters of a title, by its string.
TitleChars ==
    [s \in {Str(cs) : cs \in ModelTitles \cup ExampleTitles} |->
        CHOOSE cs \in ModelTitles \cup ExampleTitles : Str(cs) = s]
    @@ TitlesFrom(<<>>, MaxTitleLen, TitleAlphabet)

\* projectData.title, a string: its characters.
TitleOf(data) == TitleChars[GetProp(data, "title")[2]]

\* The content of the file `file`: one of ImportFiles, or "ekspor", the file
\* exportProject writes for the active project.
FileNames == (DOMAIN ImportFiles) \cup {"ekspor"}
FileContent(file) == IF file = "ekspor" THEN ExportText(projectData) ELSE ImportFiles[file]

\* performImport on each of ImportFiles.
ImportFileResults == [file \in DOMAIN ImportFiles |-> PerformImport(ImportFiles[file])]
PerformImportOf(file) ==
    IF file = "ekspor" THEN PerformImport(FileContent(file)) ELSE ImportFileResults[file]

\* Lines 100-131; `confirmed` is the answer to window.confirm, when it is asked.
importProject(file, confirmed) ==
    /\ Idle
    /\ file = "ekspor" => Truthy(projectData)
    /\ IF Truthy(projectData) /\ ~confirmed
       THEN /\ UNCHANGED docVars
            /\ Report("importProject:declined", "", "", FALSE)
       ELSE \E r \in {PerformImportOf(file)} :
            /\ projectData' = IF r.set THEN r.data ELSE projectData
            /\ effectPending' = (r.set /\ EffectAfterSet(r.data))
            /\ UNCHANGED localStorage
            /\ Report(IF r.set THEN "importProject" ELSE "importProject:failed",
                      file, r.alert, r.uncaught)
    /\ UNCHANGED << createVars, cooldownVars >>

\* exportProject without the check of lines 134-137 and with
\* projectData?.title: with no project it offers a file of the text null.
exportProjectUnguarded ==
    /\ ~effectPending
    /\ IF Truthy(projectData) /\ GetProp(projectData, "title")[1] # "string"
       THEN /\ lastAlert' = ExportFailedAlert
            /\ lastDownload' = <<>>
            /\ lastCall' = "exportProject:failed"
       ELSE /\ lastAlert' = ""
            /\ lastDownload' =
                  << FileName(IF Truthy(projectData)
                              THEN SanitizedTitle(TitleOf(projectData)) ELSE <<>>),
                     ExportText(projectData) >>
            /\ lastCall' = "exportProject"
    /\ lastFile' = ""
    /\ uncaught' = FALSE
    /\ UNCHANGED << projectData, localStorage, effectPending, isCreatingProject, creating,
                    isHumanizingCooldown, timers, solo >>

\* Lines 133-155.  A title that is no string has no toLowerCase: line 143
\* throws a TypeError, after the text was made and before the download; the
\* catch alerts it.
exportProject ==
    /\ Idle
    /\ IF ~Truthy(projectData)
       THEN /\ lastAlert' = NothingToExportAlert
            /\ lastDownload' = <<>>
            /\ lastCall' = "exportProject:none"
       ELSE IF GetProp(projectData, "title")[1] # "string"
       THEN /\ lastAlert' = ExportFailedAlert
            /\ lastDownload' = <<>>
            /\ lastCall' = "exportProject:failed"
       ELSE /\ lastAlert' = ""
            /\ lastDownload' = << FileName(SanitizedTitle(TitleOf(projectData))),
                                  ExportText(projectData) >>
            /\ lastCall' = "exportProject"
    /\ lastFile' = ""
    /\ uncaught' = FALSE
    /\ UNCHANGED << docVars, createVars, cooldownVars >>

\* The page is loaded again: the provider mounts anew on the storage as it is;
\* pending promises and timers of the old page are gone.
Remount ==
    /\ projectData' = GetInitialData(localStorage)
    /\ isCreatingProject' = FALSE
    /\ isHumanizingCooldown' = FALSE
    /\ effectPending' = TRUE
    /\ creating' = 0
    /\ timers' = <<>>
    /\ solo' = NoSolo
    /\ Report("mount", "", "", FALSE)
    /\ UNCHANGED localStorage

Next ==
    \/ PersistEffect
    \/ \E d \in ProjectDataValues : onProjectUpdate(d)
    \/ \E d \in ProjectDataValues : loadProject(d)
    \/ \E c \in BOOLEAN : startNewProject(c)
    \/ createProject
    \/ \E d \in GeneratedProjects : createProjectResolved(d)
    \/ createProjectRejected
    \/ startHumanizingCooldown
    \/ cooldownTimeout
    \/ Tick
    \/ \E f \in FileNames, c \in BOOLEAN : (c \/ Truthy(projectData)) /\ importProject(f, c)
    \/ exportProject
    \/ Remount

Spec == Init /\ [][Next]_vars

\* The effect runs after the render.  However often other handlers run, every
\* pending call of initializeNewProject settles, time passes and a due timer
\* fires.
Fairness ==
    /\ WF_vars(PersistEffect)
    /\ SF_vars((\E d \in GeneratedProjects : createProjectResolved(d)) \/ createProjectRejected)
    /\ SF_vars(Tick)
    /\ SF_vars(cooldownTimeout)

FairSpec == Spec /\ Fairness

(***************************************************************************)
(* exportProject on titled projects: the provider after a first mount on   *)
(* an empty storage, its effect, and onProjectUpdate with a project of the *)
(* given title; then the effect and exportProject.                         *)
(***************************************************************************)
TitledProject(title) == With(FullProject, << <<"title", JsString(title)>> >>)

Updated(newProjectData) ==
    /\ projectData = newProjectData
    /\ isCreatingProject = FALSE
    /\ isHumanizingCooldown = FALSE
    /\ localStorage = SetItem(NoItems, StorageKey, JsonStringify(initialProjectData, FALSE))
    /\ effectPending = TRUE
    /\ creating = 0
    /\ timers = <<>>
    /\ solo = NoSolo
    /\ lastCall = "onProjectUpdate"
    /\ lastFile = ""
    /\ lastAlert = ""
    /\ lastDownload = <<>>
    /\ uncaught = FALSE

NamingInit == \E title \in DOMAIN TitleChars : Updated(TitledProject(title))

NamingNext ==
    \/ PersistEffect
    \/ exportProject

NamingSpec == NamingInit /\ [][NamingNext]_vars

(***************************************************************************)
(* Properties.                                                             *)
(***************************************************************************)
ImportCalls == {"importProject", "importProject:failed"}
HasAllFields(v, fields) == IsObject(v) /\ fields \subseteq DOMAIN v[2]

\* C1: once the effect that follows the latest change of projectData has run,
\* the slot holds exactly JSON.stringify(projectData) when a project is
\* active, and holds no key when none is.
PersistenceConsistent ==
    ~effectPending =>
        IF Truthy(projectData)
        THEN /\ HasItem(localStorage, StorageKey)
             /\ localStorage[StorageKey] = JsonStringify(projectData, FALSE)
        ELSE ~HasItem(localStorage, StorageKey)

\* The effect has run after a confirmed reset: no project, no key.
PersistenceConsistentWitness ==
    /\ lastCall = "effect"
    /\ projectData = JsNull
    /\ ~HasItem(localStorage, StorageKey)

\* C2: a declined confirmation, of startNewProject or of importProject over an
\* active project, changes neither the project, the slot nor the two flags.
DeclinedChangesNothing ==
    [][lastCall' \in {"startNewProject:declined", "importProject:declined"}
          => UNCHANGED << projectData, localStorage, effectPending,
                          isCreatingProject, isHumanizingCooldown >>]_vars

\* A reset was declined while a project was active and a create was pending.
DeclinedChangesNothingWitness ==
    /\ lastCall = "startNewProject:declined"
    /\ Truthy(projectData)
    /\ HasItem(localStorage, StorageKey)
    /\ isCreatingProject

\* The text cannot be parsed, or parses to a value lacking a required field.
InvalidImport(fileContent) ==
    \E parsed \in {JsonParse(fileContent)} :
        ~parsed.ok \/ ~HasAllFields(parsed.value, RequiredFields)

InvalidImportFiles == {file \in DOMAIN ImportFiles : InvalidImport(ImportFiles[file])}
InvalidImportFile(file) ==
    IF file = "ekspor" THEN InvalidImport(FileContent(file)) ELSE file \in InvalidImportFiles

\* C3: importing a text that cannot be parsed or lacks title, outline,
\* chapters or authorInfo fails: project and slot stay as they were, the
\* failure is alerted and no exception escapes.
InvalidImportRejected ==
    [][lastCall' \in ImportCalls
          => \/ /\ lastCall' = "importProject:failed"
                /\ UNCHANGED << projectData, localStorage, effectPending >>
                /\ lastAlert' = ImportFailedAlert
                /\ ~uncaught'
             \/ ~InvalidImportFile(lastFile')]_vars

\* The file without chapters was imported over an active project and failed.
InvalidImportRejectedWitness ==
    /\ lastCall = "importProject:failed"
    /\ lastFile = "tanpaBab"
    /\ lastAlert = ImportFailedAlert
    /\ Truthy(projectData)

\* C4: right after a confirmed reset the slot holds no key and no project is
\* active, whatever was pending.
ResetClearsPersistence ==
    lastCall = "startNewProject" =>
        /\ projectData = JsNull
        /\ ~HasItem(localStorage, StorageKey)

\* A confirmed reset with a create in flight and the cooldown running.
ResetClearsPersistenceWitness ==
    /\ lastCall = "startNewProject"
    /\ effectPending
    /\ creating > 0
    /\ isHumanizingCooldown

ExportImportRoundTrip ==
    [][(lastCall' \in ImportCalls /\ lastFile' = "ekspor")
          => (lastCall' = "importProject" /\ projectData' = projectData)]_vars

\* C7: the flag is true until the full delay has passed since the most recent
\* call of startHumanizingCooldown.
CooldownRestarts ==
    (timers # <<>> /\ timers[Len(timers)] > 0) => isHumanizingCooldown

\* C8: after a call made with no timer pending the flag is true at every
\* instant before the delay has passed; when the timer of such a call has
\* fired and no other call was made, exactly the delay has passed and the flag
\* is false.
CooldownSingleCallSafe ==
    /\ (solo.age >= 0 /\ solo.age < CooldownMs) => isHumanizingCooldown
    /\ (solo.age >= 0 /\ ~solo.more /\ timers = <<>>)
          => (~isHumanizingCooldown /\ solo.age = CooldownMs)

\* C8: and the flag returns to false without a further call.
CooldownSingleCall ==
    /\ []CooldownSingleCallSafe
    /\ isHumanizingCooldown ~> ~isHumanizingCooldown

\* The timer of a single call has fired.
CooldownSingleCallWitness ==
    /\ lastCall = "cooldownTimeout"
    /\ solo.age = CooldownMs
    /\ ~solo.more
    /\ timers = <<>>
    /\ ~isHumanizingCooldown

\* C9: createProject sets isCreatingProject when it starts; when a call
\* settles, resolved or rejected, the flag is cleared; so every call leads to a
\* state where the flag is false.
CreatingFlagCleanup ==
    /\ [][lastCall' = "createProject" => isCreatingProject']_vars
    /\ [][lastCall' \in {"createProject:resolved", "createProject:rejected"}
             => ~isCreatingProject']_vars
    /\ isCreatingProject ~> ~isCreatingProject

\* The only pending call was rejected.
CreatingFlagCleanupWitness ==
    /\ lastCall = "createProject:rejected"
    /\ creating = 0
    /\ ~isCreatingProject

\* C10: a rejected generation leaves the project and the slot as they were
\* just before, alerts the failure, and no exception escapes.
GenerationFailureKeepsProject ==
    [][lastCall' = "createProject:rejected"
          => /\ UNCHANGED << projectData, localStorage, effectPending >>
             /\ lastAlert' = CreateFailedAlert
             /\ ~uncaught']_vars

\* The generation was rejected after a reset made while it was pending.
GenerationFailureKeepsProjectWitness ==
    /\ lastCall = "createProject:rejected"
    /\ lastAlert = CreateFailedAlert
    /\ projectData = JsNull
    /\ ~HasItem(localStorage, StorageKey)

\* The content of the slot, <<>> when it holds no key.
SlotText == IF HasItem(localStorage, StorageKey) THEN localStorage[StorageKey] ELSE <<>>

\* The value of the text `text`; undefined when there is none or it cannot be
\* parsed.
StoredValue(text) ==
    IF text = <<>> THEN JsUndefined
    ELSE CHOOSE v \in { IF parsed.ok THEN parsed.value ELSE JsUndefined :
                         parsed \in {JsonParse(text)} } : TRUE

\* The provider mounted on a slot holding a value `stored`: a document is
\* active; it is the built-in default when `stored` lacks title or authorInfo
\* (there is no key, the text cannot be parsed or it has no such property),
\* and the stored document, every optional field present, when `stored` has
\* both.
StartsWithDocument(stored) ==
    /\ Truthy(projectData)
    /\ ~HasAllFields(stored, {"title", "authorInfo"}) => projectData = initialProjectData
    /\ (Truthy(GetProp(stored, "title")) /\ Truthy(GetProp(stored, "authorInfo")))
          => /\ HasAllFields(projectData, OptionalFields)
             /\ \A k \in DOMAIN stored[2] :
                    Truthy(stored[2][k]) => GetProp(projectData, k) = stored[2][k]

\* C12: whatever the slot holds (no key, unparsable text, a value lacking
\* title or authorInfo, a minimally valid project), the provider mounts with a
\* document and nothing is thrown: the built-in default in the first three
\* cases, the backfilled stored project in the last.
InitialStateNeverAbsent ==
    lastCall = "mount" =>
        /\ ~uncaught
        /\ \E stored \in {StoredValue(SlotText)} : StartsWithDocument(stored)

\* The page was loaded again after a reset: the slot has no key, the default
\* is active although no effect has written it yet.
InitialStateNeverAbsentWitness ==
    /\ lastCall = "mount"
    /\ ~HasItem(localStorage, StorageKey)
    /\ projectData = initialProjectData

\* The defaults of the optional fields.
DefaultValues ==
    [bibliography |-> JsArray(""),
     appendices |-> JsArray(""),
     statementPageData |-> JsNull,
     approvalData |-> JsNull,
     preface |-> JsString("<p>Kata Pengantar belum dibuat.</p>"),
     abstract |-> JsString("<p>Abstrak belum dibuat.</p>")]

\* `result` is `given` with each missing optional field at its default and
\* every other field as it was.
IsBackfillOf(result, given) ==
    /\ IsObject(result)
    /\ DOMAIN result[2] = (DOMAIN given[2]) \cup OptionalFields
    /\ \A k \in OptionalFields \ DOMAIN given[2] : result[2][k] = DefaultValues[k]
    /\ \A k \in DOMAIN given[2] : result[2][k] = given[2][k]

\* The values of the files of ImportFiles, and of any file.
ImportFileValues == [file \in DOMAIN ImportFiles |-> StoredValue(ImportFiles[file])]
ImportedValue(file) ==
    IF file = "ekspor" THEN StoredValue(FileContent(file)) ELSE ImportFileValues[file]

\* C11: a project loaded from the slot (it has title and authorInfo) or
\* imported (it has the four required fields) comes into state with each
\* missing optional field at its default and every other field unchanged, and
\* the backfill applied to such a result gives the result again.
BackfillDefaults ==
    /\ [](lastCall = "mount" =>
            \A stored \in {StoredValue(SlotText)} :
                (Truthy(GetProp(stored, "title")) /\ Truthy(GetProp(stored, "authorInfo")))
                    => /\ IsBackfillOf(projectData, stored)
                       /\ BackfillLoaded(projectData) = projectData)
    /\ [][lastCall' = "importProject" =>
            \A given \in {ImportedValue(lastFile')} :
                /\ IsBackfillOf(projectData', given)
                /\ BackfillImported(projectData') = projectData']_vars

\* C16: importing a project that has every optional field, whatever their
\* values (an empty string, an empty list and null included), puts it into
\* state with exactly those values.
ImportKeepsCompleteDocument ==
    [][lastCall' = "importProject" =>
          \A given \in {ImportedValue(lastFile')} :
              HasAllFields(given, OptionalFields)
                  => \A k \in OptionalFields : GetProp(projectData', k) = given[2][k]]_vars

\* A letter or a digit.
IsAlphanumeric(c) == c \in LowerLetters \cup Digits \cup DOMAIN UpperToLower

RECURSIVE JoinedWords(_, _, _)
\* The words of cs (its maximal runs of letters and digits) from character i
\* on, in lower case, a hyphen between two words; `some` says a word came
\* before.
JoinedWords(cs, i, some) ==
    IF i > Len(cs) THEN <<>>
    ELSE IF ~IsAlphanumeric(cs[i]) THEN JoinedWords(cs, i + 1, some)
    ELSE (IF some /\ ~IsAlphanumeric(cs[i - 1]) THEN <<"-">> ELSE <<>>)
         \o ToLowerCase(<<cs[i]>>) \o JoinedWords(cs, i + 1, TRUE)

\* The slug of a file name: what stands between the prefix and the suffix.
SlugOf(name) == SubSeq(name, 2, Len(name) - 1)

WellFormedSlug(slug) ==
    /\ slug # <<>>
    /\ slug[1] # "-"
    /\ slug[Len(slug)] # "-"
    /\ \A i \in 1..(Len(slug) - 1) : ~(slug[i] = "-" /\ slug[i + 1] = "-")

\* C13: the file exportProject offers is named proyek-akademik-<slug>.json;
\* the slug is the words of the title in lower case joined by single hyphens,
\* tanpa-judul when the title has no word; it is never empty, has no hyphen
\* at either end and no two hyphens in a row.  "Analisis Data!!" gives
\* analisis-data and "???" gives tanpa-judul.
ExportFileNaming ==
    lastCall = "exportProject" =>
        \E name \in {lastDownload[1]}, title \in {TitleOf(projectData)} :
            /\ name[1] = "proyek-akademik-"
            /\ name[Len(name)] = ".json"
            /\ \E words \in {JoinedWords(title, 1, FALSE)} :
                   SlugOf(name) = IF words = <<>> THEN Fallback ELSE words
            /\ WellFormedSlug(SlugOf(name))
            /\ title = << "A", "n", "a", "l", "i", "s", "i", "s", " ", "D", "a", "t", "a", "!", "!" >>
                  => SlugOf(name) = << "a", "n", "a", "l", "i", "s", "i", "s", "-", "d", "a", "t", "a" >>
            /\ title = << "?", "?", "?" >> => SlugOf(name) = Fallback

\* A title of other characters around and between two words was exported.
ExportFileNamingWitness ==
    /\ lastCall = "exportProject"
    /\ TitleOf(projectData) = << "!", "B", "-", "1" >>
    /\ SlugOf(lastDownload[1]) = << "b", "-", "1" >>

ExportCalls == {"exportProject", "exportProject:none", "exportProject:failed"}

\* C14: exportProject with no project active alerts that there is none and
\* offers no file; and however it ends, it leaves the project, the slot and
\* the two flags as they were and throws nothing.
ExportChangesNothing ==
    [][lastCall' \in ExportCalls
          => /\ UNCHANGED << projectData, localStorage, effectPending,
                             isCreatingProject, isHumanizingCooldown >>
             /\ ~uncaught'
             /\ ~Truthy(projectData)
                   => /\ lastCall' = "exportProject:none"
                      /\ lastAlert' = NothingToExportAlert
                      /\ lastDownload' = <<>>]_vars

\* exportProject was called after a reset, while a create was pending.
ExportChangesNothingWitness ==
    /\ lastCall = "exportProject:none"
    /\ projectData = JsNull
    /\ lastAlert = NothingToExportAlert
    /\ isCreatingProject

\* C15: isCreatingProject is true exactly when at least one call of
\* createProject is awaiting initializeNewProject.
CreatingReflectsInFlight == isCreatingProject <=> creating > 0

\* C17: the provider mounts with a project, and a step that leaves no project
\* active where one was is a confirmed startNewProject: no update, create,
\* import, export, timer or reload does that.
AbsentOnlyByReset ==
    /\ [](lastCall = "mount" => Truthy(projectData))
    /\ [][(Truthy(projectData) /\ ~Truthy(projectData')) => lastCall' = "startNewProject"]_vars

\* A reset took the project away; nothing else was going on.
AbsentOnlyByResetWitness ==
    /\ lastCall = "startNewProject"
    /\ ~Truthy(projectData)
    /\ effectPending
    /\ creating = 0
    /\ timers = <<>>

\* C18: when a pending createProject resolves, the generated project becomes
\* the active one, whatever was updated, imported, reset or created while it
\* waited, and the effect that follows writes it to the slot.
CreateLastWriteWins ==
    /\ [][lastCall' = "createProject:resolved" => projectData' \in GeneratedProjects]_vars
    /\ [][(lastCall = "createProject:resolved" /\ lastCall' = "effect")
             => /\ projectData \in GeneratedProjects
                /\ HasItem(localStorage', StorageKey)
                /\ localStorage'[StorageKey] = JsonStringify(projectData, FALSE)]_vars

\* The call resolved after a reset made while it waited had cleared the slot,
\* and a second call is still waiting.
CreateLastWriteWinsWitness ==
    /\ lastCall = "createProject:resolved"
    /\ projectData \in GeneratedProjects
    /\ ~HasItem(localStorage, StorageKey)
    /\ effectPending
    /\ creating > 0

\* C19: a project that the load from the slot or an import put into state
\* has title, authorInfo, outline and chapters.
AcceptedHaveRequiredFields ==
    (lastCall \in {"mount", "importProject"} /\ projectData # initialProjectData)
        => HasAllFields(projectData, RequiredFields)

DocumentCalls ==
    { "onProjectUpdate", "loadProject", "startNewProject", "startNewProject:declined",
      "importProject", "importProject:failed", "importProject:declined" } \cup ExportCalls
CreateCalls == {"createProject", "createProject:resolved", "createProject:rejected"}
CooldownCalls == {"startHumanizingCooldown", "cooldownTimeout"}

\* C20: update, reset, import and export change neither flag; starting the
\* cooldown and its timer callback change neither the project, the slot nor
\* the creating flag; create does not change the cooldown flag.
FlagOrthogonality ==
    /\ [][lastCall' \in DocumentCalls
             => UNCHANGED << isCreatingProject, isHumanizingCooldown >>]_vars
    /\ [][lastCall' \in CooldownCalls
             => UNCHANGED << projectData, localStorage, effectPending, isCreatingProject >>]_vars
    /\ [][lastCall' \in CreateCalls => UNCHANGED isHumanizingCooldown]_vars

\* The timer fired while a create was pending and a project was active.
FlagOrthogonalityWitness ==
    /\ lastCall = "cooldownTimeout"
    /\ isCreatingProject
    /\ creating > 0
    /\ Truthy(projectData)
    /\ ~isHumanizingCooldown

====
